---- MODULE Spec2Model ----
(***************************************************************************)
(* Lifetime name resolution (librustc/middle/resolve_lifetime.rs).         *)
(*                                                                         *)
(* The pass walks a program tree depth first.  The walk keeps a current    *)
(* scope chain; every lifetime reference is resolved against the chain and *)
(* entered in named_region_map, and invalid names are reported through the *)
(* session (span_err) without stopping the walk.  The tree is not given in *)
(* advance here: every action that enters a node chooses that node, so the *)
(* behaviours of the model are the walks over all trees within the bounds. *)
(*                                                                         *)
(* A scope chain is a sequence of frames, innermost first; RootScope is    *)
(* the empty sequence.  A span is identified with the node id it covers.   *)
(***************************************************************************)
EXTENDS Integers, Sequences, FiniteSets, TLC

\* ------------------------------------------------------------------ bounds
\* A program is bounded by the node ids it may use up (every declaration,
\* reference and block takes one) and by the nodes open at once.

\* the walk over whole programs
MaxId == 2
MaxDepth == 3
\* programs of top-level items, with larger generics clauses
MaxIdItems == 5
\* programs of items nested in function bodies
MaxIdNest == 3
MaxDepthNest == 3
\* programs of blocks, closures and impls nested in function bodies
MaxIdFree == 4
MaxDepthFree == 4

\* ------------------------------------------------------------------- names

static_lifetime == "static"

Names == {"a", "b", static_lifetime}

Ordinary == Names \ {static_lifetime}

DUMMY_NODE_ID == 0

\* ------------------------------------------------------------ DefRegion

DefStaticRegion == [tag |-> "Static"]

DefEarlyBoundRegion(space, index, decl_id) ==
    [tag |-> "EarlyBound", space |-> space, index |-> index, decl |-> decl_id]

DefLateBoundRegion(debruijn, decl_id) ==
    [tag |-> "LateBound", depth |-> debruijn, decl |-> decl_id]

DefFreeRegion(scope_data, decl_id) ==
    [tag |-> "Free", extent |-> scope_data, decl |-> decl_id]

\* ------------------------------------------------------------ ScopeChain

RootScope == << >>

EarlyScope(space, lifetimes, s) ==
    << [kind |-> "Early", space |-> space, lifetimes |-> lifetimes] >> \o s

LateScope(lifetimes, s) ==
    << [kind |-> "Late", lifetimes |-> lifetimes] >> \o s

BlockScope(extent, s) ==
    << [kind |-> "Block", extent |-> extent] >> \o s

\* --------------------------------------------------- the walk's context
\* The part of LifetimeContext and Session that the pass changes: the
\* result table, the reports made so far, and whether the pass was halted
\* by span_bug.

NewContext == [map |-> << >>, errs |-> << >>, bug |-> FALSE]

span_err(cx, kind, lifetime) ==
    [cx EXCEPT !.errs = Append(@, [kind |-> kind, id |-> lifetime.id,
                                   name |-> lifetime.name])]

insert_lifetime(cx, lifetime_ref, def) ==
    IF lifetime_ref.id = DUMMY_NODE_ID
    THEN [cx EXCEPT !.bug = TRUE]
    ELSE [cx EXCEPT !.map = [k \in (DOMAIN cx.map) \cup {lifetime_ref.id} |->
                               IF k = lifetime_ref.id THEN def ELSE cx.map[k]]]

\* the report with a slip: made as a fatal error, which halts the pass
unresolved_lifetime_ref_fatal(cx, lifetime_ref) ==
    [span_err(cx, "Undeclared", lifetime_ref) EXCEPT !.bug = TRUE]

unresolved_lifetime_ref(cx, lifetime_ref) ==
    span_err(cx, "Undeclared", lifetime_ref)

\* -------------------------------------------------------- search_lifetimes

None == [found |-> FALSE]

Some(index, decl_id) == [found |-> TRUE, index |-> index, id |-> decl_id]

\* first declaration of the name, with its 0-based position
search_lifetimes(lifetimes, lifetime_ref) ==
    LET hits == {i \in 1..Len(lifetimes) :
                   lifetimes[i].lifetime.name = lifetime_ref.name}
    IN  IF hits = {} THEN None
        ELSE LET i == CHOOSE h \in hits : \A g \in hits : h <= g
             IN  Some(i - 1, lifetimes[i].lifetime.id)

\* ---------------------------------------------- resolve_free_lifetime_ref

RECURSIVE free_walk(_, _, _, _)
free_walk(cx, scope_data, lifetime_ref, scope) ==
    IF scope = RootScope
    THEN unresolved_lifetime_ref(cx, lifetime_ref)
    ELSE LET f == Head(scope)
             s == Tail(scope)
         IN  IF f.kind = "Block"
             THEN free_walk(cx, f.extent, lifetime_ref, s)
             ELSE LET search_result == search_lifetimes(f.lifetimes, lifetime_ref)
                  IN  IF search_result.found
                      THEN insert_lifetime(cx, lifetime_ref,
                               DefFreeRegion(scope_data, search_result.id))
                      ELSE free_walk(cx, scope_data, lifetime_ref, s)

\* the walk with a slip: the extent of the first block is kept
RECURSIVE free_walk_first_extent(_, _, _, _)
free_walk_first_extent(cx, scope_data, lifetime_ref, scope) ==
    IF scope = RootScope
    THEN unresolved_lifetime_ref(cx, lifetime_ref)
    ELSE LET f == Head(scope)
             s == Tail(scope)
         IN  IF f.kind = "Block"
             THEN free_walk_first_extent(cx, scope_data, lifetime_ref, s)
             ELSE LET search_result == search_lifetimes(f.lifetimes, lifetime_ref)
                  IN  IF search_result.found
                      THEN insert_lifetime(cx, lifetime_ref,
                               DefFreeRegion(scope_data, search_result.id))
                      ELSE free_walk_first_extent(cx, scope_data,
                                                  lifetime_ref, s)

resolve_free_lifetime_ref(cx, scope_data, lifetime_ref, scope) ==
    free_walk(cx, scope_data, lifetime_ref, scope)

\* --------------------------------------------------- resolve_lifetime_ref

RECURSIVE bound_walk(_, _, _, _)
bound_walk(cx, late_depth, lifetime_ref, scope) ==
    IF scope = RootScope
    THEN unresolved_lifetime_ref(cx, lifetime_ref)
    ELSE LET f == Head(scope)
             s == Tail(scope)
         IN  CASE f.kind = "Block" ->
                    resolve_free_lifetime_ref(cx, f.extent, lifetime_ref, s)
               [] f.kind = "Early" ->
                    LET r == search_lifetimes(f.lifetimes, lifetime_ref)
                    IN  IF r.found
                        THEN insert_lifetime(cx, lifetime_ref,
                                 DefEarlyBoundRegion(f.space, r.index, r.id))
                        ELSE bound_walk(cx, late_depth, lifetime_ref, s)
               [] f.kind = "Late" ->
                    LET r == search_lifetimes(f.lifetimes, lifetime_ref)
                    IN  IF r.found
                        THEN insert_lifetime(cx, lifetime_ref,
                                 DefLateBoundRegion(late_depth + 1, r.id))
                        ELSE bound_walk(cx, late_depth + 1, lifetime_ref, s)

\* the walk with a slip: a miss in an early scope counts as a binder crossed
RECURSIVE bound_walk_early_counts(_, _, _, _)
bound_walk_early_counts(cx, late_depth, lifetime_ref, scope) ==
    IF scope = RootScope
    THEN unresolved_lifetime_ref(cx, lifetime_ref)
    ELSE LET f == Head(scope)
             s == Tail(scope)
         IN  IF f.kind = "Block"
             THEN resolve_free_lifetime_ref(cx, f.extent, lifetime_ref, s)
             ELSE LET r == search_lifetimes(f.lifetimes, lifetime_ref)
                  IN  IF ~ r.found
                      THEN bound_walk_early_counts(cx, late_depth + 1,
                                                   lifetime_ref, s)
                      ELSE insert_lifetime(cx, lifetime_ref,
                               IF f.kind = "Early"
                               THEN DefEarlyBoundRegion(f.space, r.index, r.id)
                               ELSE DefLateBoundRegion(late_depth + 1, r.id))

resolve_lifetime_ref_early_counts(cx, scope, lifetime_ref) ==
    bound_walk_early_counts(cx, 0, lifetime_ref, scope)

resolve_lifetime_ref(cx, scope, lifetime_ref) ==
    bound_walk(cx, 0, lifetime_ref, scope)

\* ----------------------------------------------------- visit_lifetime_ref

\* the visit with a slip: the static lifetime is looked up like any name
visit_lifetime_ref_no_static(cx, scope, lifetime_ref) ==
    resolve_lifetime_ref(cx, scope, lifetime_ref)

visit_lifetime_ref(cx, scope, lifetime_ref) ==
    IF lifetime_ref.name = static_lifetime
    THEN insert_lifetime(cx, lifetime_ref, DefStaticRegion)
    ELSE resolve_lifetime_ref(cx, scope, lifetime_ref)

RECURSIVE visit_lifetime_refs(_, _, _)
visit_lifetime_refs(cx, scope, refs) ==
    IF refs = << >> THEN cx
    ELSE visit_lifetime_refs(visit_lifetime_ref(cx, scope, Head(refs)),
                             scope, Tail(refs))

\* ---------------------------------------------------- check_lifetime_defs

\* the inner loop over all declarations of the set (lines 415-423)
RECURSIVE report_special_idents(_, _)
report_special_idents(cx, lifetimes) ==
    IF lifetimes = << >> THEN cx
    ELSE LET lifetime == Head(lifetimes).lifetime
         IN  report_special_idents(
                 IF lifetime.name = static_lifetime
                 THEN span_err(cx, "Reserved", lifetime)
                 ELSE cx,
                 Tail(lifetimes))

\* the loop over j in i+1 .. len (lines 425-436)
RECURSIVE report_declared_twice(_, _, _, _)
report_declared_twice(cx, lifetimes, i, j) ==
    IF j > Len(lifetimes) THEN cx
    ELSE report_declared_twice(
             IF lifetimes[i].lifetime.name = lifetimes[j].lifetime.name
             THEN span_err(cx, "Duplicate", lifetimes[j].lifetime)
             ELSE cx,
             lifetimes, i, j + 1)

\* the loop over the bounds of declaration i (lines 438-440)
RECURSIVE resolve_bounds(_, _, _)
resolve_bounds(cx, scope, bounds) ==
    IF bounds = << >> THEN cx
    ELSE resolve_bounds(resolve_lifetime_ref(cx, scope, Head(bounds)),
                        scope, Tail(bounds))

\* one round of the outer loop, for declaration i
check_lifetime_def(cx, scope, lifetimes, i) ==
    resolve_bounds(
        report_declared_twice(report_special_idents(cx, lifetimes),
                              lifetimes, i, i + 1),
        scope, lifetimes[i].bounds)

RECURSIVE check_lifetime_defs_from(_, _, _, _)
check_lifetime_defs_from(cx, scope, lifetimes, i) ==
    IF i > Len(lifetimes) THEN cx
    ELSE check_lifetime_defs_from(check_lifetime_def(cx, scope, lifetimes, i),
                                  scope, lifetimes, i + 1)

check_lifetime_defs(cx, scope, lifetimes) ==
    check_lifetime_defs_from(cx, scope, lifetimes, 1)

\* ---------------------------------------------- early_bound_lifetime_names

\* Vec::swap_remove: the last element takes the place of the removed one
swap_remove(v, index) ==
    [k \in 1..(Len(v) - 1) |-> IF k = index THEN v[Len(v)] ELSE v[k]]

\* lists is the pair of the two name lists, early_bound and late_bound
shuffle(lists, name) ==
    LET hits == {k \in 1..Len(lists.late_bound) : lists.late_bound[k] = name}
    IN  IF hits = {} THEN lists
        ELSE LET index == CHOOSE h \in hits : \A g \in hits : h <= g
             IN  [early_bound |-> Append(lists.early_bound, name),
                  late_bound  |-> swap_remove(lists.late_bound, index)]

\* FreeLifetimeCollector over one list of bounds: every lifetime reference
\* found in them is shuffled
RECURSIVE collect_bounds(_, _)
collect_bounds(lists, bounds) ==
    IF bounds = << >> THEN lists
    ELSE collect_bounds(shuffle(lists, Head(bounds).name), Tail(bounds))

RECURSIVE collect_ty_params(_, _)
collect_ty_params(lists, ty_params) ==
    IF ty_params = << >> THEN lists
    ELSE collect_ty_params(collect_bounds(lists, Head(ty_params).bounds),
                           Tail(ty_params))

\* an equality predicate ends the pass: unimplemented!() (line 511)
has_eq_predicate(generics) ==
    \E k \in 1..Len(generics.where_clause) :
        generics.where_clause[k].kind = "EqPredicate"

RECURSIVE collect_predicates(_, _)
collect_predicates(lists, predicates) ==
    IF predicates = << >> THEN lists
    ELSE collect_predicates(collect_bounds(lists, Head(predicates).bounds),
                            Tail(predicates))

\* lines 518-527
RECURSIVE shuffle_lifetime_defs(_, _)
shuffle_lifetime_defs(lists, lifetimes) ==
    IF lifetimes = << >> THEN lists
    ELSE LET lifetime_def == Head(lifetimes)
         IN  shuffle_lifetime_defs(
                 IF lifetime_def.bounds # << >>
                 THEN collect_bounds(shuffle(lists, lifetime_def.lifetime.name),
                                     lifetime_def.bounds)
                 ELSE lists,
                 Tail(lifetimes))

\* the names with a slip: the bounds of the lifetimes themselves are left out
early_bound_lifetime_names_types_only(generics) ==
    LET start == [early_bound |-> << >>,
                  late_bound  |-> [k \in 1..Len(generics.lifetimes) |->
                                     generics.lifetimes[k].lifetime.name]]
    IN  collect_predicates(collect_ty_params(start, generics.ty_params),
                           generics.where_clause).early_bound

\* defined for clauses without an equality predicate
early_bound_lifetime_names(generics) ==
    LET start == [early_bound |-> << >>,
                  late_bound  |-> [k \in 1..Len(generics.lifetimes) |->
                                     generics.lifetimes[k].lifetime.name]]
        typed == collect_predicates(collect_ty_params(start, generics.ty_params),
                                    generics.where_clause)
    IN  shuffle_lifetime_defs(typed, generics.lifetimes).early_bound

\* ---------------------------------------------------------- the partition

InSeq(x, s) == \E k \in 1..Len(s) : s[k] = x

RECURSIVE by_names(_, _)
by_names(names, lifetimes) ==
    IF names = << >> THEN << >>
    ELSE LET named(l) == l.lifetime.name = Head(names)
         IN  SelectSeq(lifetimes, named) \o by_names(Tail(names), lifetimes)

\* the early half with a slip: in the order of the names found
partition_early_promotion_order(generics) ==
    by_names(early_bound_lifetime_names(generics), generics.lifetimes)

\* Vec::partition (lines 294-295): both halves keep the order of the input
partition_early(generics) ==
    LET referenced_idents == early_bound_lifetime_names(generics)
        early(l) == InSeq(l.lifetime.name, referenced_idents)
    IN  SelectSeq(generics.lifetimes, early)

partition_late(generics) ==
    LET referenced_idents == early_bound_lifetime_names(generics)
        late(l) == ~ InSeq(l.lifetime.name, referenced_idents)
    IN  SelectSeq(generics.lifetimes, late)

\* the scope visit_early_late walks the item in (lines 297-298)
early_late_scope(early_space, generics, scope) ==
    LateScope(partition_late(generics),
              EarlyScope(early_space, partition_early(generics), scope))

\* ---------------------------------------------------------- visit_generics

\* One bound of a type parameter or of a where-clause predicate, as far as
\* lifetimes go: a reference, either a region bound (T: 'a) or an argument
\* of a trait bound (T: Trait<'a>).  The trait bound is walked by
\* visit_poly_trait_ref, in a late scope of its own.
visit_bound(cx, scope, bound) ==
    IF bound.in_trait
    THEN visit_lifetime_ref(cx, LateScope(<< >>, scope), bound)
    ELSE visit_lifetime_ref(cx, scope, bound)

RECURSIVE visit_bounds(_, _, _)
visit_bounds(cx, scope, bounds) ==
    IF bounds = << >> THEN cx
    ELSE visit_bounds(visit_bound(cx, scope, Head(bounds)), scope, Tail(bounds))

RECURSIVE visit_bounded(_, _, _)
visit_bounded(cx, scope, items) ==
    IF items = << >> THEN cx
    ELSE visit_bounded(visit_bounds(cx, scope, Head(items).bounds),
                       scope, Tail(items))

visit_generics(cx, scope, generics) ==
    visit_bounded(visit_bounded(cx, scope, generics.ty_params),
                  scope, generics.where_clause)

\* ------------------------------------------------------------------ krate

\* Session::abort_if_errors, as called once after walk_crate (line 87)
abort_if_errors(cx) == IF Len(cx.errs) > 0 THEN "aborted" ELSE "ok"

\* ------------------------------------------------------------- the inputs
\* A node is chosen as a shape, names without ids; the ids are then given
\* in source order starting at the next free id, as the parser numbers a
\* tree.

SeqsUpTo(S, n) == UNION {[1..k -> S] : k \in 0..n}

\* a lifetime declaration, with at most one outlives-bound
DeclShapes == [name : Names, bounds : SeqsUpTo(Names, 1)]

\* a declaration of a closure, bare-fn or higher-ranked binder: no bounds
BinderShapes == [name : Names, bounds : {<< >>}]

\* One bound of a type parameter or of a where-clause predicate, as far as
\* lifetimes go: a reference, either a region bound (T: 'a) or an argument
\* of a trait bound (T: Trait<'a>).
BoundShapes == [name : Names, in_trait : BOOLEAN]

EqPredicate == [kind |-> "EqPredicate", bounds |-> << >>]

NoGenerics == [lifetimes |-> << >>, ty_params |-> << >>, where_clause |-> << >>]

RECURSIVE all_bounds(_)
all_bounds(items) ==
    IF items = << >> THEN << >>
    ELSE Head(items).bounds \o all_bounds(Tail(items))

\* node ids a generics clause takes
size_generics(G) ==
    Len(G.lifetimes) + Len(all_bounds(G.lifetimes))
    + Len(all_bounds(G.ty_params)) + Len(all_bounds(G.where_clause))

\* node ids a lifetime list takes
size_lifetimes(L) == Len(L) + Len(all_bounds(L))

\* the lifetime lists of at most n node ids
RECURSIVE LifetimeLists(_)
LifetimeLists(n) ==
    {<< >>} \cup
    UNION {{<< d >> \o rest : rest \in LifetimeLists(n - 1 - Len(d.bounds))} :
             d \in {x \in DeclShapes : 1 + Len(x.bounds) <= n}}

\* the lifetime lists of the binders of types, of at most n node ids
Binders(n) == SeqsUpTo(BinderShapes, n)

\* The generics clauses of at most n node ids: any lifetime list, at most
\* one type parameter with one bound, no where-clause or one that is an
\* equality predicate.
Clauses(n) ==
    UNION {[lifetimes : {L},
            ty_params : {<< >>} \cup
                (IF size_lifetimes(L) < n
                 THEN {<< [bounds |-> << b >>] >> : b \in BoundShapes}
                 ELSE {}),
            where_clause : {<< >>, << EqPredicate >>}] :
           L \in LifetimeLists(n)}

\* The clauses of the programs of top-level items, of at most n node ids:
\* any lifetime list, no type parameter or one with any number of trait
\* bounds that name a lifetime (T: Trait<'a> + Trait<'b>), and at most one
\* where-clause predicate, which bounds a type by one region or is an
\* equality.  The lifetimes of these bounds have ordinary names.
ItemClauses(n) ==
    {G \in UNION {[lifetimes : {L},
                   ty_params : {<< >>} \cup
                       {<< [bounds |-> b] >> :
                           b \in SeqsUpTo([name : Ordinary, in_trait : {TRUE}],
                                          n - size_lifetimes(L)) \ {<< >>}},
                   where_clause : {<< >>, << EqPredicate >>} \cup
                       {<< [kind |-> "BoundPredicate",
                            bounds |-> << [name |-> x, in_trait |-> FALSE] >>] >> :
                           x \in Ordinary}] :
                  L \in LifetimeLists(n)} :
        size_generics(G) <= n}

\* what may be chosen with k node ids left, for k up to the bound
WalkClauses == [k \in 0..MaxId |-> Clauses(k)]

WalkBinders == [k \in 0..MaxId |-> Binders(k)]

TopClauses == ItemClauses(MaxIdItems)

NestClauses == [k \in 0..MaxIdNest |-> Clauses(k)]

number_names(names, id) ==
    [k \in 1..Len(names) |-> [name |-> names[k], id |-> id + k - 1]]

number_bounds(bounds, id) ==
    [k \in 1..Len(bounds) |->
        [name |-> bounds[k].name, in_trait |-> bounds[k].in_trait, id |-> id + k - 1]]

RECURSIVE number_lifetimes(_, _)
number_lifetimes(shapes, id) ==
    IF shapes = << >> THEN << >>
    ELSE LET d == Head(shapes)
         IN  << [lifetime |-> [name |-> d.name, id |-> id],
                 bounds   |-> number_names(d.bounds, id + 1)] >>
             \o number_lifetimes(Tail(shapes), id + 1 + Len(d.bounds))

RECURSIVE number_bounded(_, _)
number_bounded(items, id) ==
    IF items = << >> THEN << >>
    ELSE LET x == Head(items)
         IN  << [x EXCEPT !.bounds = number_bounds(x.bounds, id)] >>
             \o number_bounded(Tail(items), id + Len(x.bounds))

number_generics(G, id) ==
    LET n1 == Len(G.lifetimes) + Len(all_bounds(G.lifetimes))
        n2 == Len(all_bounds(G.ty_params))
    IN  [lifetimes    |-> number_lifetimes(G.lifetimes, id),
         ty_params    |-> number_bounded(G.ty_params, id + n1),
         where_clause |-> number_bounded(G.where_clause, id + n1 + n2)]

\* ---------------------------------------------------------------- state

VARIABLES
    pc,        \* "walk": walk_crate is running; "done": krate has decided;
               \* "panic": the pass was ended by unimplemented!()
    stack,     \* the open nodes, outermost first, each with the scope its
               \* children are visited in (the chain of with() calls)
    cx,        \* named_region_map and the session's reports
    next_id,   \* the next node id of the tree being walked
    result,    \* what krate decided: "none" so far, "ok" or "aborted"
    last,      \* history: the resolutions made by the last step, each with
               \* the reference and the chain it was resolved on
    seen       \* history: what the tree walked so far holds, of "decl" (a
               \* lifetime declaration), "static_ref" (a reference to the
               \* static lifetime) and "ref" (a reference to another name)

vars == << pc, stack, cx, next_id, result, last, seen >>

Top == stack[Len(stack)]

self_scope == Top.scope

Entry(node, scope, generics) ==
    [node |-> node, scope |-> scope, generics |-> generics]

\* history records of the references refs, resolved on scope
Resolved(refs, scope, how) ==
    [k \in 1..Len(refs) |->
        [ref   |-> [name |-> refs[k].name, id |-> refs[k].id],
         scope |-> IF how = "visit" /\ refs[k].in_trait
                   THEN LateScope(<< >>, scope) ELSE scope,
         how   |-> how]]

Plain(refs) ==
    [k \in 1..Len(refs) |-> [name |-> refs[k].name, id |-> refs[k].id,
                             in_trait |-> FALSE]]

Limits(ids, depth) == [ids |-> ids, depth |-> depth]

Init ==
    /\ pc = "walk"
    /\ stack = << Entry("Crate", RootScope, NoGenerics) >>
    /\ cx = NewContext
    /\ next_id = 1
    /\ result = "none"
    /\ last = << >>
    /\ seen = {}

\* what a list of declarations and a list of references add to seen
SeenIn(lifetimes, refs) ==
    (IF lifetimes # << >> THEN {"decl"} ELSE {})
    \cup {IF refs[k].name = static_lifetime THEN "static_ref" ELSE "ref" :
             k \in 1..Len(refs)}

\* the walk goes on: neither finished nor halted by span_bug
Walking == pc = "walk" /\ ~ cx.bug

\* where the tree may hold an item, a block, a type
ItemPlaces == {"Crate", "Mod", "Block", "FnBlock"}

BlockPlaces == {"ItemFn", "Method", "Block", "FnBlock"}

TyPlaces == {"Mod", "ItemFn", "ItemTy", "ItemImpl", "Method", "TyMethod",
             "Block", "FnBlock", "Ty"}

CanEnter(places, lim, ids) ==
    /\ Walking
    /\ Top.node \in places
    /\ Len(stack) <= lim.depth
    /\ next_id + ids - 1 <= lim.ids

\* Enters a node whose generics clause is validated `checks` times on
\* `scope` and then walked by visit_generics.
EnterGenerics(node, scope, generics, checks) ==
    LET cx1 == check_lifetime_defs(cx, scope, generics.lifetimes)
        cx2 == IF checks = 2
               THEN check_lifetime_defs(cx1, scope, generics.lifetimes)
               ELSE cx1
        bnd == Resolved(Plain(all_bounds(generics.lifetimes)), scope, "bound")
        vis == Resolved(all_bounds(generics.ty_params)
                        \o all_bounds(generics.where_clause), scope, "visit")
    IN  /\ stack' = Append(stack, Entry(node, scope, generics))
        /\ cx' = visit_generics(cx2, scope, generics)
        /\ next_id' = next_id + size_generics(generics)
        /\ last' = bnd \o vis
        /\ seen' = seen \cup SeenIn(generics.lifetimes,
                         all_bounds(generics.lifetimes)
                         \o all_bounds(generics.ty_params)
                         \o all_bounds(generics.where_clause))
        /\ UNCHANGED << pc, result >>

\* visit_early_late: the partition first, which panics on an equality
\* predicate; then the two scopes, validation, and the walk
visit_early_late(node, early_space, generics, scope, checks) ==
    IF has_eq_predicate(generics)
    THEN /\ pc' = "panic"
         /\ last' = << >>
         /\ UNCHANGED << stack, cx, next_id, result, seen >>
    ELSE EnterGenerics(node, early_late_scope(early_space, generics, scope),
                       generics, checks)

\* the visit with a slip: the function item is walked in the current scope
VisitItemFn_keeps_scope(G, lim) ==
    /\ CanEnter(ItemPlaces, lim, size_generics(G))
    /\ visit_early_late("ItemFn", "FnSpace", number_generics(G, next_id),
                        self_scope, 1)

\* visit_item, ItemFn, and visit_fn, FkItemFn, which walk_item calls
VisitItemFn(G, lim) ==
    /\ CanEnter(ItemPlaces, lim, size_generics(G))
    /\ visit_early_late("ItemFn", "FnSpace", number_generics(G, next_id),
                        RootScope, 1)

\* visit_item: ItemMod, ItemMac, ItemForeignMod, ItemStatic, ItemConst
VisitItemMod(lim) ==
    /\ CanEnter(ItemPlaces, lim, 0)
    /\ stack' = Append(stack, Entry("Mod", RootScope, NoGenerics))
    /\ last' = << >>
    /\ UNCHANGED << pc, cx, next_id, result, seen >>

\* visit_item: ItemTy, ItemEnum, ItemStruct, ItemTrait
VisitItemTy(G, lim) ==
    /\ CanEnter(ItemPlaces, lim, size_generics(G))
    /\ LET generics == number_generics(G, next_id)
       IN  EnterGenerics("ItemTy",
               EarlyScope("TypeSpace", generics.lifetimes, RootScope),
               generics, 1)

\* visit_item: ItemImpl
VisitItemImpl(G, lim) ==
    /\ CanEnter(ItemPlaces, lim, size_generics(G))
    /\ visit_early_late("ItemImpl", "TypeSpace", number_generics(G, next_id),
                        self_scope, 2)

\* visit_fn: FkMethod, a method of an impl or a provided method of a trait
VisitMethod(G, lim) ==
    /\ CanEnter({"ItemImpl", "ItemTy"}, lim, size_generics(G))
    /\ visit_early_late("Method", "FnSpace", number_generics(G, next_id),
                        self_scope, 1)

\* visit_ty_method: a required method of a trait
VisitTyMethod(G, lim) ==
    /\ CanEnter({"ItemTy"}, lim, size_generics(G))
    /\ visit_early_late("TyMethod", "FnSpace", number_generics(G, next_id),
                        self_scope, 1)

\* visit_block: the block's extent is its node id
EnterBlock(node) ==
    /\ stack' = Append(stack,
           Entry(node, BlockScope(next_id, self_scope), NoGenerics))
    /\ next_id' = next_id + 1
    /\ last' = << >>
    /\ UNCHANGED << pc, cx, result, seen >>

VisitBlock(lim) ==
    /\ CanEnter(BlockPlaces, lim, 1)
    /\ EnterBlock("Block")

\* visit_fn: FkFnBlock, a closure expression; walk_fn visits its body block
VisitFnBlock(lim) ==
    /\ CanEnter({"Block", "FnBlock"}, lim, 1)
    /\ EnterBlock("FnBlock")

\* a binder of a type: a late scope on the current one, validated once
EnterBinder(L, lim) ==
    /\ CanEnter(TyPlaces, lim, Len(L))
    /\ LET lifetimes == number_lifetimes(L, next_id)
           scope == LateScope(lifetimes, self_scope)
       IN  /\ stack' = Append(stack, Entry("Ty", scope,
                          [NoGenerics EXCEPT !.lifetimes = lifetimes]))
           /\ cx' = check_lifetime_defs(cx, scope, lifetimes)
           /\ next_id' = next_id + Len(L)
    /\ last' = << >>
    /\ seen' = seen \cup SeenIn(L, << >>)
    /\ UNCHANGED << pc, result >>

\* visit_ty: TyClosure
VisitTyClosure(L, lim) == EnterBinder(L, lim)

\* visit_ty: TyBareFn
VisitTyBareFn(L, lim) == EnterBinder(L, lim)

\* visit_poly_trait_ref
VisitPolyTraitRef(L, lim) == EnterBinder(L, lim)

\* visit_ty: TyPath of a path that def_map gives as a trait
VisitTyPath(lim) ==
    /\ CanEnter(TyPlaces, lim, 0)
    /\ stack' = Append(stack,
           Entry("Ty", LateScope(<< >>, self_scope), NoGenerics))
    /\ last' = << >>
    /\ UNCHANGED << pc, cx, next_id, result, seen >>

\* visit_lifetime_ref, of a reference the walk meets in the open node
VisitLifetimeRef(name, lim) ==
    /\ Walking
    /\ Top.node # "Crate"
    /\ next_id <= lim.ids
    /\ LET lifetime_ref == [name |-> name, id |-> next_id, in_trait |-> FALSE]
       IN  /\ cx' = visit_lifetime_ref(cx, self_scope, lifetime_ref)
           /\ last' = Resolved(<< lifetime_ref >>, self_scope, "visit")
           /\ seen' = seen \cup SeenIn(<< >>, << lifetime_ref >>)
    /\ next_id' = next_id + 1
    /\ UNCHANGED << pc, stack, result >>

\* the visit of the open node returns: with() drops its scope
Exit ==
    /\ Walking
    /\ Len(stack) > 1
    /\ stack' = SubSeq(stack, 1, Len(stack) - 1)
    /\ last' = << >>
    /\ UNCHANGED << pc, cx, next_id, result, seen >>

\* walk_crate has returned: krate decides
Finish ==
    /\ Walking
    /\ Len(stack) = 1
    /\ pc' = "done"
    /\ result' = abort_if_errors(cx)
    /\ last' = << >>
    /\ UNCHANGED << stack, cx, next_id, seen >>

\* ------------------------------------------------- the walk over programs

WalkLimits == Limits(MaxId, MaxDepth)

Next ==
    \/ \E G \in WalkClauses[MaxId + 1 - next_id] : VisitItemFn(G, WalkLimits)
    \/ VisitItemMod(WalkLimits)
    \/ \E G \in WalkClauses[MaxId + 1 - next_id] : VisitItemTy(G, WalkLimits)
    \/ \E G \in WalkClauses[MaxId + 1 - next_id] : VisitItemImpl(G, WalkLimits)
    \/ \E G \in WalkClauses[MaxId + 1 - next_id] : VisitMethod(G, WalkLimits)
    \/ \E G \in WalkClauses[MaxId + 1 - next_id] : VisitTyMethod(G, WalkLimits)
    \/ VisitBlock(WalkLimits)
    \/ VisitFnBlock(WalkLimits)
    \/ \E L \in WalkBinders[MaxId + 1 - next_id] : VisitTyClosure(L, WalkLimits)
    \/ \E L \in WalkBinders[MaxId + 1 - next_id] : VisitTyBareFn(L, WalkLimits)
    \/ \E L \in WalkBinders[MaxId + 1 - next_id] : VisitPolyTraitRef(L, WalkLimits)
    \/ VisitTyPath(WalkLimits)
    \/ \E name \in Names : VisitLifetimeRef(name, WalkLimits)
    \/ Exit
    \/ Finish

Spec == Init /\ [][Next]_vars

\* ------------------------------ programs of one top-level item
\* The item is the first node that takes ids; its clause may be larger
\* than those of the walk over whole programs.

TopLimits == Limits(MaxIdItems, 1)

FirstNode == next_id = 1

NextItems ==
    \/ FirstNode /\ \E G \in TopClauses : VisitItemFn(G, TopLimits)
    \/ FirstNode /\ \E G \in TopClauses : VisitItemTy(G, TopLimits)
    \/ FirstNode /\ \E G \in TopClauses : VisitItemImpl(G, TopLimits)
    \/ \E name \in Names : VisitLifetimeRef(name, TopLimits)
    \/ Exit
    \/ Finish

SpecItems == Init /\ [][NextItems]_vars

\* ------------------------------ programs of items nested in fn bodies

NestLimits == Limits(MaxIdNest, MaxDepthNest)

NextNest ==
    \/ \E G \in NestClauses[MaxIdNest + 1 - next_id] : VisitItemFn(G, NestLimits)
    \/ VisitItemMod(NestLimits)
    \/ \E G \in NestClauses[MaxIdNest + 1 - next_id] : VisitItemTy(G, NestLimits)
    \/ \E G \in NestClauses[MaxIdNest + 1 - next_id] : VisitItemImpl(G, NestLimits)
    \/ VisitBlock(NestLimits)
    \/ VisitFnBlock(NestLimits)
    \/ \E name \in Names : VisitLifetimeRef(name, NestLimits)
    \/ Exit
    \/ Finish

SpecNest == Init /\ [][NextNest]_vars

\* ------------------------------ programs of blocks, closures, impls and
\* methods nested in function bodies; the clauses are lifetime lists of
\* at most two node ids, with or without an outlives-bound

FreeLimits == Limits(MaxIdFree, MaxDepthFree)

FreeClauses ==
    [k \in 0..MaxIdFree |->
        {[NoGenerics EXCEPT !.lifetimes = L] :
            L \in LifetimeLists(IF k < 2 THEN k ELSE 2)}]

NextFree ==
    \/ \E G \in FreeClauses[MaxIdFree + 1 - next_id] : VisitItemFn(G, FreeLimits)
    \/ \E G \in FreeClauses[MaxIdFree + 1 - next_id] : VisitItemImpl(G, FreeLimits)
    \/ \E G \in FreeClauses[MaxIdFree + 1 - next_id] : VisitMethod(G, FreeLimits)
    \/ VisitBlock(FreeLimits)
    \/ VisitFnBlock(FreeLimits)
    \/ \E name \in Names : VisitLifetimeRef(name, FreeLimits)
    \/ Exit
    \/ Finish

SpecFree == Init /\ [][NextFree]_vars

\* ================================================================ claims

\* ------------------------------------------------- what the claims speak of

\* the frame declares the name
Declares(f, name) ==
    /\ f.kind # "Block"
    /\ \E i \in 1..Len(f.lifetimes) : f.lifetimes[i].lifetime.name = name

\* the positions of the declarations of the name in a lifetime list
Positions(lifetimes, name) ==
    {i \in 1..Len(lifetimes) : lifetimes[i].lifetime.name = name}

Least(S) == CHOOSE x \in S : \A y \in S : x <= y

\* the node id of the first declaration of the name in the list
FirstDeclId(lifetimes, name) ==
    lifetimes[Least(Positions(lifetimes, name))].lifetime.id

\* the frames of the chain that declare the name
Matches(chain, name) == {k \in 1..Len(chain) : Declares(chain[k], name)}

\* the frames of a kind among the first k - 1 of the chain
Crossed(chain, k, kind) == {j \in 1..(k - 1) : chain[j].kind = kind}

Reports(kind, id) ==
    {k \in 1..Len(cx.errs) : cx.errs[k].kind = kind /\ cx.errs[k].id = id}

Events == {last[e] : e \in 1..Len(last)}

\* the event is a non-static reference first found in a late frame, with no
\* block frame before it
FoundLate(ev) ==
    /\ ev.ref.name # static_lifetime
    /\ Matches(ev.scope, ev.ref.name) # {}
    /\ LET k == Least(Matches(ev.scope, ev.ref.name))
       IN  /\ ev.scope[k].kind = "Late"
           /\ Crossed(ev.scope, k, "Block") = {}

\* C1: a non-static reference first found in a late frame, with no block
\* frame between the reference and the match, is entered as
\* LateBound(d, declId), d being 1 + the number of late frames searched and
\* missed before the match; early frames missed do not count.
C1_LateDepth ==
    \A ev \in Events :
        FoundLate(ev) =>
            LET k == Least(Matches(ev.scope, ev.ref.name))
            IN  /\ ev.ref.id \in DOMAIN cx.map
                /\ cx.map[ev.ref.id] =
                       DefLateBoundRegion(
                           1 + Cardinality(Crossed(ev.scope, k, "Late")),
                           FirstDeclId(ev.scope[k].lifetimes, ev.ref.name))

\* a reference found in a late frame after a late and an early frame missed
C1_Witness ==
    \E ev \in Events :
        /\ FoundLate(ev)
        /\ LET k == Least(Matches(ev.scope, ev.ref.name))
           IN  /\ Crossed(ev.scope, k, "Late") # {}
               /\ Crossed(ev.scope, k, "Early") # {}
        /\ ev.ref.id \in DOMAIN cx.map
        /\ cx.map[ev.ref.id].tag = "LateBound"
        /\ cx.map[ev.ref.id].depth = 2

\* C3: every reference to the static lifetime is entered as Static and is
\* never reported as undeclared, wherever it occurs, the outlives-bounds of
\* declarations included.
C3_StaticAlways ==
    \A ev \in Events :
        ev.ref.name = static_lifetime =>
            /\ ev.ref.id \in DOMAIN cx.map
            /\ cx.map[ev.ref.id] = DefStaticRegion
            /\ Reports("Undeclared", ev.ref.id) = {}

\* C4: a non-static reference that no frame of its chain declares is
\* reported as undeclared exactly once, has no entry in the table, and
\* the pass fails.
C4_UndeclaredOnce ==
    /\ \A ev \in Events :
           (ev.ref.name # static_lifetime /\ Matches(ev.scope, ev.ref.name) = {}) =>
               /\ Cardinality(Reports("Undeclared", ev.ref.id)) = 1
               /\ ev.ref.id \notin DOMAIN cx.map
    /\ (pc = "done" /\ \E k \in 1..Len(cx.errs) : cx.errs[k].kind = "Undeclared")
           => result = "aborted"

\* C8: reports never stop the walk: while the walk is on, whatever was
\* reported, nothing is decided, the open node can still be left or the
\* walk finished, and a further reference can still be visited; the pass
\* decides once the walk is over, and fails iff a report was made.
C8_Batched ==
    /\ pc = "walk" =>
           /\ result = "none"
           /\ ENABLED (Exit \/ Finish)
           /\ (Top.node # "Crate" /\ next_id <= MaxId) =>
                  \A name \in Names : ENABLED VisitLifetimeRef(name, WalkLimits)
    /\ pc = "done" =>
           /\ Len(stack) = 1
           /\ result \in {"ok", "aborted"}
           /\ result = "aborted" <=> Len(cx.errs) > 0
    /\ pc = "panic" => result = "none"

\* the pass has failed, and a reference met after a report has its entry
C8_Witness ==
    /\ pc = "done"
    /\ result = "aborted"
    /\ \E k \in 1..Len(cx.errs) : \E id \in DOMAIN cx.map : cx.errs[k].id < id

\* C9 as stated: a program that declares no lifetime ends with an empty
\* table and success.
C9_Original ==
    (pc = "done" /\ "decl" \notin seen) =>
        /\ DOMAIN cx.map = {}
        /\ result = "ok"

\* C9 as amended: a program that declares no lifetime ends with a table
\* that holds only Static entries and is empty iff the program has no
\* reference to the static lifetime, and with success iff it has no
\* reference to another lifetime name.
C9_NoDeclarations ==
    (pc = "done" /\ "decl" \notin seen) =>
        /\ \A id \in DOMAIN cx.map : cx.map[id] = DefStaticRegion
        /\ DOMAIN cx.map = {} <=> "static_ref" \notin seen
        /\ result = "ok" <=> "ref" \notin seen

\* a program without declarations that ends well with a Static entry
C9_Witness ==
    /\ pc = "done"
    /\ seen = {"static_ref"}
    /\ DOMAIN cx.map # {}
    /\ result = "ok"

\* ------------------------------------------------- C2: nested items

Blocks == {"Block", "FnBlock"}

\* stack[i] is a function item that declares the name
OuterFn(i, name) ==
    /\ i \in 1..Len(stack)
    /\ stack[i].node = "ItemFn"
    /\ Positions(stack[i].generics.lifetimes, name) # {}

\* the open node is an item of one of the kinds, nested in blocks of the
\* body of the function stack[i], and does not declare the name itself
NestedItem(i, name, kinds) ==
    /\ OuterFn(i, name)
    /\ Len(stack) > i + 1
    /\ stack[i + 1].node = "Block"
    /\ \A j \in (i + 1)..(Len(stack) - 1) : stack[j].node \in Blocks
    /\ Top.node \in kinds
    /\ Positions(Top.generics.lifetimes, name) = {}

\* the open node is the body of a closure in the body of the function
ClosureBody(i, name) ==
    /\ OuterFn(i, name)
    /\ Len(stack) > i + 1
    /\ stack[i + 1].node = "Block"
    /\ \A j \in (i + 1)..Len(stack) : stack[j].node \in Blocks
    /\ Top.node = "FnBlock"

\* the open node is the function itself: the reference is in its signature
Signature(i, name) == OuterFn(i, name) /\ Len(stack) = i

\* the extents of the blocks open above stack[i]
Extents(i) ==
    {stack[j].scope[1].extent :
        j \in {k \in (i + 1)..Len(stack) : stack[k].node \in Blocks}}

\* the reference is entered as free in an enclosing block, for the
\* declaration of the function stack[i]
IsFree(i, ref) ==
    /\ ref.id \in DOMAIN cx.map
    /\ cx.map[ref.id].tag = "Free"
    /\ cx.map[ref.id].extent \in Extents(i)
    /\ cx.map[ref.id].decl = FirstDeclId(stack[i].generics.lifetimes, ref.name)

IsBound(i, ref) ==
    /\ ref.id \in DOMAIN cx.map
    /\ cx.map[ref.id].tag \in {"EarlyBound", "LateBound"}
    /\ cx.map[ref.id].decl = FirstDeclId(stack[i].generics.lifetimes, ref.name)

NonStatic == {ev \in Events : ev.ref.name # static_lifetime}

Split == {e \in 1..Len(stack) :
            stack[e].node \in {"ItemFn", "ItemImpl", "Method", "TyMethod"}}

LateOf(e) == stack[e].scope[1].lifetimes

EarlyOf(e) == stack[e].scope[2].lifetimes

SpaceOf(e) == IF stack[e].node = "ItemImpl" THEN "TypeSpace" ELSE "FnSpace"

Ids(lifetimes) == {lifetimes[k].lifetime.id : k \in 1..Len(lifetimes)}

NamesOf(lifetimes) == [k \in 1..Len(lifetimes) |-> lifetimes[k].lifetime.name]

RefNames(refs) == {refs[k].name : k \in 1..Len(refs)}

\* the names referenced in the bounds of the type parameters and of the
\* where-clause bound-predicates
BoundNames(G) ==
    LET bound_predicate(w) == w.kind = "BoundPredicate"
    IN  RefNames(all_bounds(G.ty_params)) \cup
        RefNames(all_bounds(SelectSeq(G.where_clause, bound_predicate)))

\* the names in the outlives-bounds of the declared lifetimes
OutlivedNames(G) == RefNames(all_bounds(G.lifetimes))

\* C10 as stated, for one declaration: its name is referenced in a type
\* bound, or it carries an outlives-bound itself, or it is named in one
EarlyAsStated(G, d) ==
    \/ d.lifetime.name \in BoundNames(G)
    \/ d.bounds # << >>
    \/ d.lifetime.name \in OutlivedNames(G)

\* C10 as amended: the split goes by name, so that a declaration is early
\* too when another declaration of its name carries an outlives-bound
EarlyByName(G, d) ==
    \/ d.lifetime.name \in BoundNames(G)
    \/ \E k \in 1..Len(G.lifetimes) :
           /\ G.lifetimes[k].lifetime.name = d.lifetime.name
           /\ G.lifetimes[k].bounds # << >>
    \/ d.lifetime.name \in OutlivedNames(G)

\* every declaration is in exactly one of the two lists
Partitioned(e) ==
    /\ Ids(EarlyOf(e)) \cup Ids(LateOf(e)) = Ids(stack[e].generics.lifetimes)
    /\ Ids(EarlyOf(e)) \cap Ids(LateOf(e)) = {}
    /\ Len(EarlyOf(e)) + Len(LateOf(e)) = Len(stack[e].generics.lifetimes)

\* C10 as stated: the early and late lists partition the declared
\* lifetimes, and a declaration is early iff its name is referenced in a
\* type-parameter bound or where-clause bound-predicate, or it carries an
\* outlives-bound, or it is named in an outlives-bound of the clause.
C10_Original ==
    \A e \in Split :
        /\ Partitioned(e)
        /\ \A k \in 1..Len(stack[e].generics.lifetimes) :
               LET d == stack[e].generics.lifetimes[k]
               IN  d.lifetime.id \in Ids(EarlyOf(e))
                       <=> EarlyAsStated(stack[e].generics, d)

\* C10 as amended: the same, but a declaration is also early when another
\* declaration of the same name in the clause carries an outlives-bound.
C10_Partition ==
    \A e \in Split :
        /\ Partitioned(e)
        /\ \A k \in 1..Len(stack[e].generics.lifetimes) :
               LET d == stack[e].generics.lifetimes[k]
               IN  d.lifetime.id \in Ids(EarlyOf(e))
                       <=> EarlyByName(stack[e].generics, d)

\* the clause <'a, 'b, T: Trait<'b>> is split into early ['b], late ['a]
C10_Witness ==
    \E e \in Split :
        /\ NamesOf(stack[e].generics.lifetimes) = << "a", "b" >>
        /\ OutlivedNames(stack[e].generics) = {}
        /\ BoundNames(stack[e].generics) = {"b"}
        /\ NamesOf(EarlyOf(e)) = << "b" >>
        /\ NamesOf(LateOf(e)) = << "a" >>

\* the references resolved by the last step on the scope of the open,
\* split node, to a name that its clause declares early
EarlyRefs ==
    {ev \in NonStatic :
        /\ Len(stack) \in Split
        /\ \E k \in 1..Len(Top.generics.lifetimes) :
               /\ Top.generics.lifetimes[k].lifetime.name = ev.ref.name
               /\ EarlyByName(Top.generics, Top.generics.lifetimes[k])}

Distinct(names) ==
    \A i, j \in 1..Len(names) : names[i] = names[j] => i = j

\* the 0-based position of the name in a list of names
IndexOf(names, name) == Least({k \in 1..Len(names) : names[k] = name}) - 1

\* C5 as stated: the early frame lists the early lifetimes in the order in
\* which the scan promoted them, a reference to one of them is entered as
\* EarlyBound(space, i, declId) with i its position in that order, and
\* the late list keeps declaration order.
C5_Original ==
    /\ \A e \in Split :
           Distinct(NamesOf(stack[e].generics.lifetimes)) =>
               /\ NamesOf(EarlyOf(e)) = early_bound_lifetime_names(stack[e].generics)
               /\ LET late(d) == ~ EarlyByName(stack[e].generics, d)
                  IN  LateOf(e) = SelectSeq(stack[e].generics.lifetimes, late)
    /\ \A ev \in EarlyRefs :
           Distinct(NamesOf(Top.generics.lifetimes)) =>
               /\ ev.ref.id \in DOMAIN cx.map
               /\ cx.map[ev.ref.id] =
                      DefEarlyBoundRegion(SpaceOf(Len(stack)),
                          IndexOf(early_bound_lifetime_names(Top.generics),
                                  ev.ref.name),
                          FirstDeclId(Top.generics.lifetimes, ev.ref.name))

\* C5 as amended: both lists keep declaration order, and a reference to an
\* early lifetime is entered as EarlyBound(space, i, declId) with i the
\* number of early declarations before the first declaration of its name.
C5_DeclarationOrder ==
    /\ \A e \in Split :
           LET early(d) == EarlyByName(stack[e].generics, d)
               late(d) == ~ EarlyByName(stack[e].generics, d)
           IN  /\ EarlyOf(e) = SelectSeq(stack[e].generics.lifetimes, early)
               /\ LateOf(e) = SelectSeq(stack[e].generics.lifetimes, late)
    /\ \A ev \in EarlyRefs :
           LET first == Least(Positions(Top.generics.lifetimes, ev.ref.name))
               before == {k \in 1..(first - 1) :
                            EarlyByName(Top.generics, Top.generics.lifetimes[k])}
           IN  /\ ev.ref.id \in DOMAIN cx.map
               /\ cx.map[ev.ref.id] =
                      DefEarlyBoundRegion(SpaceOf(Len(stack)),
                          Cardinality(before),
                          FirstDeclId(Top.generics.lifetimes, ev.ref.name))

\* two lifetimes promoted in the reverse of their declaration order, and a
\* reference to the second declared entered with index 1
C5_Witness ==
    /\ Len(stack) \in Split
    /\ NamesOf(Top.generics.lifetimes) = << "a", "b" >>
    /\ early_bound_lifetime_names(Top.generics) = << "b", "a" >>
    /\ \E ev \in EarlyRefs :
           /\ ev.ref.name = "b"
           /\ ev.ref.id \in DOMAIN cx.map
           /\ cx.map[ev.ref.id].tag = "EarlyBound"
           /\ cx.map[ev.ref.id].index = 1

\* ----------------------------------- C6, C7: one run of the validation

\* the open node's declaration set was validated once
ValidatedOnce == Len(stack) > 1 /\ Top.node \in {"ItemFn", "ItemTy"}

\* C6: a name declared k >= 2 times in the set gets k - 1 reports of a
\* duplicate, one at each of its second and later declarations.
C6_OnePerDuplicate ==
    ValidatedOnce =>
        \A name \in Names :
            LET P == Positions(Top.generics.lifetimes, name)
            IN  Cardinality(P) >= 2 =>
                    /\ Reports("Duplicate",
                               Top.generics.lifetimes[Least(P)].lifetime.id) = {}
                    /\ \A p \in P \ {Least(P)} :
                           Cardinality(Reports("Duplicate",
                               Top.generics.lifetimes[p].lifetime.id)) = 1

\* C7: every declaration named as the static lifetime gets exactly one
\* report of a reserved name, whatever the size of the set.
C7_OnePerReserved ==
    ValidatedOnce =>
        \A p \in Positions(Top.generics.lifetimes, static_lifetime) :
            Cardinality(Reports("Reserved",
                Top.generics.lifetimes[p].lifetime.id)) = 1

\* ------------------------------------- C11: equality predicates

\* the clause without the equality predicates of its where-clause
without_eq(G) ==
    LET bound_predicate(w) == w.kind # "EqPredicate"
    IN  [G EXCEPT !.where_clause = SelectSeq(G.where_clause, bound_predicate)]

\* C11: the partition of a clause whose where-clause holds an equality
\* predicate completes normally: the pass does not crash on it, and the
\* clause is split as the same clause without the predicate is.
C11_EqPredicateSkipped ==
    /\ pc # "panic"
    /\ \A e \in Split :
           has_eq_predicate(stack[e].generics) =>
               /\ EarlyOf(e) = partition_early(without_eq(stack[e].generics))
               /\ LateOf(e) = partition_late(without_eq(stack[e].generics))

\* ------------------------------------- C12: one validation per set

\* the open nodes whose declaration set is two declarations of one name
TwoOfOneName ==
    {e \in 1..Len(stack) :
        /\ Len(stack[e].generics.lifetimes) = 2
        /\ stack[e].generics.lifetimes[1].lifetime.name
               = stack[e].generics.lifetimes[2].lifetime.name}

\* C12: every declaration set is validated exactly once, whatever node
\* owns it, so that a set of two declarations of one name gets exactly one
\* report of a duplicate over the whole run, at the second declaration.
C12_ValidatedOncePerSet ==
    \A e \in TwoOfOneName :
        /\ Reports("Duplicate", stack[e].generics.lifetimes[1].lifetime.id) = {}
        /\ Cardinality(Reports("Duplicate",
               stack[e].generics.lifetimes[2].lifetime.id)) = 1

\* ------------------------------------- C13: the extent of a free region

BlockFrames(chain) == {k \in 1..Len(chain) : chain[k].kind = "Block"}

Greatest(S) == CHOOSE x \in S : \A y \in S : y <= x

\* the event is a non-static reference whose walk meets a block frame
\* before any frame that declares its name, and then such a frame
FoundFree(ev) ==
    /\ ev.ref.name # static_lifetime
    /\ BlockFrames(ev.scope) # {}
    /\ Matches(ev.scope, ev.ref.name) # {}
    /\ Least(BlockFrames(ev.scope)) < Least(Matches(ev.scope, ev.ref.name))

\* the block frames crossed before the first frame that declares the name
BlocksCrossed(ev) ==
    {k \in BlockFrames(ev.scope) : k < Least(Matches(ev.scope, ev.ref.name))}

\* C13: a reference whose walk meets a block frame before the first frame
\* that declares its name is entered as Free(extent, declId), the extent
\* being that of the last block frame crossed before that frame and declId
\* the declaration found there; the frame's kind, space and index and the
\* late frames crossed play no part.
C13_TrackedExtent ==
    \A ev \in Events :
        FoundFree(ev) =>
            LET k == Least(Matches(ev.scope, ev.ref.name))
                b == Greatest(BlocksCrossed(ev))
            IN  /\ ev.ref.id \in DOMAIN cx.map
                /\ cx.map[ev.ref.id] =
                       DefFreeRegion(ev.scope[b].extent,
                           FirstDeclId(ev.scope[k].lifetimes, ev.ref.name))

\* a reference that crosses two block frames before the frame that
\* declares it, entered with the extent of the second and not of the first
C13_Witness ==
    \E ev \in Events :
        /\ FoundFree(ev)
        /\ Cardinality(BlocksCrossed(ev)) >= 2
        /\ ev.ref.id \in DOMAIN cx.map
        /\ cx.map[ev.ref.id].tag = "Free"
        /\ cx.map[ev.ref.id].extent
               # ev.scope[Least(BlockFrames(ev.scope))].extent

====
